---- MODULE Spec2Model ----
(***************************************************************************)
(* Booking and payment lifecycle of the futsal booking backend             *)
(* (backend/src/routes/bookings.js, backend/src/routes/payments.js).       *)
(*                                                                         *)
(* Every HTTP request is a process in a request slot.  A handler is cut    *)
(* into steps at its database round trips: a query() outside a             *)
(* transaction is one step, and the statements of a transaction() see the  *)
(* rows committed when they run (read committed) while its writes become   *)
(* visible at COMMIT.  Times of day are minutes since midnight, dates are  *)
(* day numbers, and the clock `now` is minutes since day 0, 00:00.         *)
(* txClock orders the create transactions by their BEGIN (the value        *)
(* CURRENT_TIMESTAMP gives created_at); codeRetries is the number of code  *)
(* collisions a behaviour may still take.                                  *)
(***************************************************************************)
EXTENDS Integers, Sequences, FiniteSets, TLC

VARIABLES bookings, payments, reqs, now, opCount, txClock, codeRetries

vars == <<bookings, payments, reqs, now, opCount, txClock, codeRetries>>

----------------------------------------------------------------------------
(* Bounds of the model *)

MaxBookings == 4
MaxPayments == 2
MaxOps == 3
MaxOpsRefund == 6
MaxOpsCreate == 2
MaxOpsLimit == 4
MaxOpsCode == 2
MaxRetries == 21
MaxOpsNotify == 4
MaxOpsSlots == 1
MaxOpsPrice == 2
MaxOpsPay == 4
MaxOpsHours == 2
MaxSlots == 49

Req == {1, 2}
Users == {"u1"}
Admin == "admin"
Actors == Users \cup {Admin}
Dates == {1}
Intervals == {<<1080, 1140>>, <<1110, 1170>>, <<1080, 1095>>}
Clock == <<0, 1200>>

(* The ids a request may name: every existing row and one that is not there. *)
BookingIds == 1..(Len(bookings) + 1)
PaymentIds == 1..(Len(payments) + 1)

----------------------------------------------------------------------------
(* Program constants *)

minDuration == 30
max_booking_duration == 240
codeLength == 8
maxAdvanceDays == 30
userBookingLimit == 3
cancellationPolicyHours == 24
slotMinutes == 30
MinutesPerDay == 24 * 60

NULL == "NULL"
BookingStatus == {"pending", "confirmed", "cancelled", "completed"}
ActiveStatus == {"pending", "confirmed"}
PaymentStatus == {"pending", "completed", "failed", "refunded"}

Role(u) == IF u = Admin THEN "admin" ELSE "user"

(* Weekdays are 0 (sunday) .. 6 (saturday); day number 0 is a sunday. *)
dayOfWeek(d) == d % 7

seedHours ==
  [w \in 0..6 |->
     [open |-> IF w = 0 THEN 420 ELSE 360,
      close |-> IF w \in {5, 6} THEN 1380 ELSE 1320]]

NoRate == 0 - 1

lateHours ==
  [w \in 0..6 |->
     [open |-> IF w = 2 THEN 1320 ELSE 360,
      close |-> IF w = 1 THEN 1439 ELSE IF w = 2 THEN 1425
                ELSE IF w = 3 THEN 1305 ELSE 1320]]

(* Facility 1 is the seeded, verified arena.  Facility 2 is a facility as  *)
(* its owner creates it (is_verified defaults to false).  Facility 3 is    *)
(* verified and its operating_hours object has no entry for monday.        *)
(* Facility 4 has no operating_hours stored (the column is nullable; the   *)
(* empty object stands for what createBooking makes of the null).          *)
(* Prices are in cents per hour (DECIMAL(10,2)), commission rates in       *)
(* ten-thousandths (DECIMAL(5,4)): facility 4 costs 1500.07 an hour,       *)
(* facility 5 has no commission rate stored.                               *)
(* Facility 5 is open 06:00-23:59 on mondays, 22:00-23:45 on tuesdays and  *)
(* 06:00-21:45 on wednesdays.                                              *)
facilities ==
  [f \in {1, 2, 3, 4, 5} |->
     [is_active |-> TRUE, is_verified |-> (f # 2),
      hours_stored |-> (f # 4),
      operating_hours |->
        IF f = 3 THEN [w \in (0..6) \ {1} |-> seedHours[w]]
        ELSE IF f = 4 THEN [w \in {} |-> seedHours[0]]
        ELSE IF f = 5 THEN lateHours
        ELSE seedHours,
      pricing_per_hour |-> IF f = 4 THEN 150007 ELSE 150000,
      commission_rate |-> IF f = 5 THEN NoRate ELSE 1000]]

SeedFacilities == {1}

today == now \div MinutesPerDay

codeChars ==
  {"A", "B", "C", "D", "E", "F", "G", "H", "I", "J", "K", "L", "M", "N", "O",
   "P", "Q", "R", "S", "T", "U", "V", "W", "X", "Y", "Z", "0", "1", "2", "3",
   "4", "5", "6", "7", "8", "9"}

(* The codes generateBookingCode draws in the model: codeLength characters *)
(* of its alphabet; the random choice is narrowed to two of the codes.     *)
generateBookingCode == {[i \in 1..codeLength |-> c] : c \in {"A", "B"}}

Codes == generateBookingCode
NoCode == << >>

----------------------------------------------------------------------------
(* Pure helpers of the handlers *)

isValidBookingTime(start, end) ==
  (end - start >= minDuration) /\ (end > start)

pastDate_m(d, currentDate) == FALSE
pastDate(d, currentDate) == d < currentDate

beyondAdvance_m(d, currentDate) == FALSE
beyondAdvance(d, currentDate) == d > currentDate + maxAdvanceDays

hasSchedule(f, d) == dayOfWeek(d) \in DOMAIN facilities[f].operating_hours

daySchedule(f, d) == facilities[f].operating_hours[dayOfWeek(d)]

outsideHours(f, d, s, e) ==
  hasSchedule(f, d) /\ (s < daySchedule(f, d).open \/ e > daySchedule(f, d).close)

codeExists(rows, c) == \E i \in DOMAIN rows : rows[i].code = c

uniqueViolation_m(rows, c) == FALSE
uniqueViolation(rows, c) == \E i \in DOMAIN rows : rows[i].code = c

conflictQuery_m(rows, f, d, s, e) ==
  {i \in DOMAIN rows :
     /\ rows[i].facility = f
     /\ rows[i].date = d
     /\ rows[i].status \in ActiveStatus
     /\ rows[i].start <= e /\ rows[i].end >= s}
conflictQuery(rows, f, d, s, e) ==
  {i \in DOMAIN rows :
     /\ rows[i].facility = f
     /\ rows[i].date = d
     /\ rows[i].status \in ActiveStatus
     /\ \/ (rows[i].start < e /\ rows[i].end > s)
        \/ (rows[i].start < e /\ rows[i].end > e)
        \/ (rows[i].start < s /\ rows[i].end > s)}

isTimeSlotAvailable(requestedStart, requestedEnd, existingSlots) ==
  ~\E slot \in existingSlots :
     requestedStart < slot.end_time /\ requestedEnd > slot.start_time

userActiveBookings(rows, u, day) ==
  Cardinality({i \in DOMAIN rows :
     /\ rows[i].user = u
     /\ rows[i].status \in ActiveStatus
     /\ rows[i].date >= day})

(* n / d rounded half up to an integer, for n >= 0 and d > 0. *)
roundHalfUp(n, d) == (2 * n + d) \div (2 * d)

(* (duration / 60) * pricePerHour, exactly, in sixtieths of a cent. *)
totalAmount(f, s, e) == (e - s) * facilities[f].pricing_per_hour

(* A value in sixtieths of a cent as the DECIMAL(10,2) column keeps it. *)
toDecimal2(amount) == roundHalfUp(amount, 60)

commissionRate(f) ==
  IF facilities[f].commission_rate = NoRate THEN 1000
  ELSE facilities[f].commission_rate

RECURSIVE gcd(_, _)
gcd(a, b) == IF b = 0 THEN a ELSE gcd(b, a % b)

(* Math.round(amount * rate * 100) / 100, in cents: the amount comes in    *)
(* sixtieths of a cent and the rate in ten-thousandths, and the fraction   *)
(* rate / 10000 is reduced before multiplying to keep the numbers small.   *)
calculateCommission(amount, rate) ==
  LET g == gcd(10000, rate) IN
  roundHalfUp(amount * (rate \div g), 60 * (10000 \div g))

minutesUntilBooking(b, t) == (b.date * MinutesPerDay + b.start) - t

alreadyFinal_m(cur) == cur = "cancelled"
alreadyFinal(cur) == cur = "completed" \/ cur = "cancelled"

noticeViolated_m(b, t, role) ==
  minutesUntilBooking(b, t) < cancellationPolicyHours * 60
noticeViolated(b, t, role) ==
  minutesUntilBooking(b, t) < cancellationPolicyHours * 60 /\ role # "admin"

falsy(v) == v = NULL \/ v = ""

reasonMissing_m(reason, role) == falsy(reason)
reasonMissing(reason, role) == falsy(reason) /\ role # "admin"

completedPayments(rows, b) ==
  {p \in DOMAIN rows : rows[p].booking = b /\ rows[p].status = "completed"}

paymentsOf(rows, b) == {p \in DOMAIN rows : rows[p].booking = b}

----------------------------------------------------------------------------
(* Request slots *)

idleReq ==
  [op |-> "none", pc |-> "idle", actor |-> NULL, bid |-> 0, pid |-> 0,
   status |-> NULL, reason |-> NULL, fac |-> 0, date |-> 0, start |-> 0,
   end |-> 0, code |-> NoCode, amount |-> 0, began |-> 0, attempts |-> 0,
   ret |-> 0, cur |-> 0, close |-> 0, booked |-> {}, slots |-> << >>,
   res |-> 0, msg |-> NULL]

Free(r) ==
  /\ opCount > 0
  /\ \/ reqs[r].pc = "idle" /\ \A s \in Req : s < r => reqs[s].pc # "idle"
     \/ /\ reqs[r].pc = "done"
        /\ \A s \in Req : reqs[s].pc # "idle" /\ (s < r => reqs[s].pc # "done")

Respond(q, code, msg) ==
  [idleReq EXCEPT !.pc = "done", !.op = q.op, !.res = code, !.msg = msg,
                  !.bid = IF q.op = "create" THEN q.bid ELSE 0,
                  !.actor = IF q.op = "put" THEN q.actor ELSE NULL,
                  !.status = IF q.op = "put" /\ code = 200 THEN q.status
                             ELSE NULL]

Init ==
  /\ bookings = << >>
  /\ payments = << >>
  /\ reqs = [r \in Req |-> idleReq]
  /\ now = Clock[1]
  /\ opCount = MaxOps
  /\ txClock = 0
  /\ codeRetries = 0

Tick ==
  /\ \E i \in DOMAIN Clock : Clock[i] > now /\ now' = Clock[i]
  /\ UNCHANGED <<bookings, payments, reqs, opCount, txClock, codeRetries>>

----------------------------------------------------------------------------
(* POST /api/bookings *)

CreateBooking(r, u, f, d, iv) ==
  LET s == iv[1]
      e == iv[2]
      q == [idleReq EXCEPT !.op = "create", !.actor = u, !.fac = f,
                           !.date = d, !.start = s, !.end = e]
  IN
  /\ Free(r)
  /\ opCount' = opCount - 1
  /\ reqs' = [reqs EXCEPT ![r] =
       IF ~isValidBookingTime(s, e) THEN Respond(q, 400, "Invalid booking time. Minimum duration is 30 minutes.")
       ELSE IF pastDate(d, today) THEN Respond(q, 400, "Cannot book for past dates")
       ELSE IF beyondAdvance(d, today) THEN Respond(q, 400, "Cannot book more than 30 days in advance")
       ELSE IF f \notin DOMAIN facilities THEN Respond(q, 404, "Facility not found")
       ELSE IF ~facilities[f].is_active \/ ~facilities[f].is_verified
            THEN Respond(q, 400, "Facility is not available for booking")
       ELSE IF outsideHours(f, d, s, e)
            THEN Respond(q, 400, "Booking time is outside facility operating hours")
       ELSE [q EXCEPT !.pc = "conflict", !.began = txClock + 1]]
  /\ txClock' = IF reqs'[r].pc = "conflict" THEN txClock + 1 ELSE txClock
  /\ UNCHANGED <<bookings, payments, now, codeRetries>>

CreateConflict(r) ==
  LET q == reqs[r] IN
  /\ q.op = "create" /\ q.pc = "conflict"
  /\ reqs' = [reqs EXCEPT ![r] =
       IF conflictQuery(bookings, q.fac, q.date, q.start, q.end) # {}
       THEN Respond(q, 409, "Selected time slot is not available")
       ELSE [q EXCEPT !.pc = "limit"]]
  /\ UNCHANGED <<bookings, payments, now, opCount, txClock, codeRetries>>

CreateLimit(r) ==
  LET q == reqs[r] IN
  /\ q.op = "create" /\ q.pc = "limit"
  /\ reqs' = [reqs EXCEPT ![r] =
       IF userActiveBookings(bookings, q.actor, today) >= userBookingLimit
       THEN Respond(q, 400, "You can have maximum 3 active bookings at a time")
       ELSE [q EXCEPT !.pc = "code",
                      !.amount = totalAmount(q.fac, q.start, q.end)]]
  /\ UNCHANGED <<bookings, payments, now, opCount, txClock, codeRetries>>

CreateCode(r, c) ==
  LET q == reqs[r] IN
  /\ q.op = "create" /\ q.pc = "code"
  /\ IF codeExists(bookings, c)
     THEN /\ codeRetries > 0
          /\ codeRetries' = codeRetries - 1
          /\ reqs' = [reqs EXCEPT ![r] = [q EXCEPT !.attempts = @ + 1]]
     ELSE /\ reqs' = [reqs EXCEPT ![r] =
                [q EXCEPT !.pc = "insert", !.code = c, !.attempts = @ + 1]]
          /\ UNCHANGED codeRetries
  /\ UNCHANGED <<bookings, payments, now, opCount, txClock>>

CreateInsert(r) ==
  LET q == reqs[r] IN
  /\ q.op = "create" /\ q.pc = "insert"
  /\ Len(bookings) < MaxBookings
  /\ IF uniqueViolation(bookings, q.code)
     THEN /\ reqs' = [reqs EXCEPT ![r] = Respond(q, 500, "Failed to create booking")]
          /\ UNCHANGED bookings
     ELSE /\ bookings' = Append(bookings,
               [user |-> q.actor, facility |-> q.fac, date |-> q.date,
                start |-> q.start, end |-> q.end, status |-> "pending",
                payment_id |-> 0, reason |-> NULL, code |-> q.code,
                amount |-> toDecimal2(q.amount),
                commission_amount |->
                  calculateCommission(q.amount, commissionRate(q.fac)),
                created_at |-> q.began])
          /\ reqs' = [reqs EXCEPT ![r] = [q EXCEPT !.pc = "fetch",
                                                   !.bid = Len(bookings) + 1]]
  /\ UNCHANGED <<payments, now, opCount, txClock, codeRetries>>

CreateFetch(r) ==
  LET q == reqs[r]
      mine == {i \in DOMAIN bookings : bookings[i].user = q.actor}
      latest == CHOOSE i \in mine :
                  \A j \in mine : bookings[j].created_at <= bookings[i].created_at
  IN
  /\ q.op = "create" /\ q.pc = "fetch"
  /\ reqs' = [reqs EXCEPT ![r] = [Respond(q, 201, "Booking created successfully") EXCEPT !.ret = latest]]
  /\ UNCHANGED <<bookings, payments, now, opCount, txClock, codeRetries>>

----------------------------------------------------------------------------
(* PUT /api/bookings/:id *)

UpdateBooking(r, a, b, st, reason) ==
  LET q == [idleReq EXCEPT !.op = "put", !.actor = a, !.bid = b,
                           !.status = st, !.reason = reason]
  IN
  /\ Free(r)
  /\ opCount' = opCount - 1
  /\ reqs' = [reqs EXCEPT ![r] =
       IF Role(a) # "admin" /\ (b \notin DOMAIN bookings \/ bookings[b].user # a)
       THEN Respond(q, 403, "You can only modify your own bookings")
       ELSE IF b \notin DOMAIN bookings THEN Respond(q, 404, "Booking not found")
       ELSE IF st = "cancelled" /\ alreadyFinal(bookings[b].status)
            THEN Respond(q, 400, "Cannot cancel a completed or already cancelled booking")
       ELSE IF st = "cancelled" /\ noticeViolated(bookings[b], now, Role(a))
            THEN Respond(q, 400, "Bookings can only be cancelled at least 24 hours in advance")
       ELSE IF st = "cancelled" /\ reasonMissing(reason, Role(a))
            THEN Respond(q, 400, "Cancellation reason is required")
       ELSE [q EXCEPT !.pc = "tx"]]
  /\ UNCHANGED <<bookings, payments, now, txClock, codeRetries>>

UpdateBookingTx(r) ==
  LET q == reqs[r]
      done == completedPayments(payments, q.bid)
  IN
  /\ q.op = "put" /\ q.pc = "tx"
  /\ bookings' = [bookings EXCEPT ![q.bid] =
       IF q.status = "cancelled"
       THEN [@ EXCEPT !.status = q.status, !.reason = q.reason]
       ELSE [@ EXCEPT !.status = q.status]]
  /\ IF q.status = "cancelled" /\ done # {}
     THEN \E p \in done :
            payments' = [payments EXCEPT ![p] =
               [@ EXCEPT !.status = "refunded",
                         !.refund_amount = payments[p].amount]]
     ELSE UNCHANGED payments
  /\ reqs' = [reqs EXCEPT ![r] = Respond(q, 200, "Booking updated successfully")]
  /\ UNCHANGED <<now, opCount, txClock, codeRetries>>

----------------------------------------------------------------------------
(* POST /api/payments/initiate *)

InitiatePayment(r, u, b) ==
  LET q == [idleReq EXCEPT !.op = "initiate", !.actor = u, !.bid = b] IN
  /\ Free(r)
  /\ opCount' = opCount - 1
  /\ reqs' = [reqs EXCEPT ![r] =
       IF b \notin DOMAIN bookings THEN Respond(q, 404, "Booking not found")
       ELSE IF bookings[b].user # u THEN Respond(q, 403, "You can only pay for your own bookings")
       ELSE IF bookings[b].status # "pending" THEN Respond(q, 400, "Payment can only be made for pending bookings")
       ELSE [q EXCEPT !.pc = "check", !.amount = bookings[b].amount]]
  /\ UNCHANGED <<bookings, payments, now, txClock, codeRetries>>

InitiateCheck(r) ==
  LET q == reqs[r]
      rows == paymentsOf(payments, q.bid)
  IN
  /\ q.op = "initiate" /\ q.pc = "check"
  /\ IF rows = {}
     THEN reqs' = [reqs EXCEPT ![r] = [q EXCEPT !.pc = "tx"]]
     ELSE \E first \in rows :
            reqs' = [reqs EXCEPT ![r] =
              IF payments[first].status \in {"completed", "pending"}
              THEN Respond(q, 400, "Payment already completed or in progress for this booking")
              ELSE [q EXCEPT !.pc = "tx"]]
  /\ UNCHANGED <<bookings, payments, now, opCount, txClock, codeRetries>>

InitiateTx(r) ==
  LET q == reqs[r] IN
  /\ q.op = "initiate" /\ q.pc = "tx"
  /\ Len(payments) < MaxPayments
  /\ payments' = Append(payments,
       [booking |-> q.bid, user |-> q.actor, amount |-> q.amount,
        status |-> "pending", refund_amount |-> 0])
  /\ bookings' = [bookings EXCEPT ![q.bid].payment_id = Len(payments) + 1]
  /\ reqs' = [reqs EXCEPT ![r] = [Respond(q, 201, "Payment initiated successfully") EXCEPT !.pid = Len(payments) + 1]]
  /\ UNCHANGED <<now, opCount, txClock, codeRetries>>

----------------------------------------------------------------------------
(* POST /api/payments/verify/esewa *)

isVerified == TRUE

VerifyPayment(r, u, p, amtMatches) ==
  LET q == [idleReq EXCEPT !.op = "verify", !.actor = u, !.pid = p] IN
  /\ Free(r)
  /\ opCount' = opCount - 1
  /\ IF p \notin DOMAIN payments
     THEN reqs' = [reqs EXCEPT ![r] = Respond(q, 404, "Payment not found")] /\ UNCHANGED payments
     ELSE IF payments[p].user # u
     THEN reqs' = [reqs EXCEPT ![r] = Respond(q, 403, "Unauthorized payment verification")] /\ UNCHANGED payments
     ELSE IF payments[p].status # "pending"
     THEN reqs' = [reqs EXCEPT ![r] = Respond(q, 400, "Payment is not in pending status")] /\ UNCHANGED payments
     ELSE IF ~amtMatches
     THEN reqs' = [reqs EXCEPT ![r] = Respond(q, 400, "Payment amount mismatch")] /\ UNCHANGED payments
     ELSE IF ~isVerified
     THEN /\ payments' = [payments EXCEPT ![p].status = "failed"]
          /\ reqs' = [reqs EXCEPT ![r] = Respond(q, 400, "Payment verification failed")]
     ELSE /\ reqs' = [reqs EXCEPT ![r] =
                [q EXCEPT !.pc = "tx", !.bid = payments[p].booking]]
          /\ UNCHANGED payments
  /\ UNCHANGED <<bookings, now, txClock, codeRetries>>

VerifyTx(r) ==
  LET q == reqs[r] IN
  /\ q.op = "verify" /\ q.pc = "tx"
  /\ payments' = [payments EXCEPT ![q.pid].status = "completed"]
  /\ bookings' = [bookings EXCEPT ![q.bid].status = "confirmed"]
  /\ reqs' = [reqs EXCEPT ![r] = Respond(q, 200, "Payment verified and booking confirmed successfully")]
  /\ UNCHANGED <<now, opCount, txClock, codeRetries>>

----------------------------------------------------------------------------
(* POST /api/payments/:id/cancel *)

CancelPayment(r, u, p) ==
  LET q == [idleReq EXCEPT !.op = "cancelPayment", !.actor = u, !.pid = p] IN
  /\ Free(r)
  /\ opCount' = opCount - 1
  /\ reqs' = [reqs EXCEPT ![r] =
       IF p \notin DOMAIN payments THEN Respond(q, 404, "Payment not found")
       ELSE IF payments[p].user # u THEN Respond(q, 403, "You can only cancel your own payments")
       ELSE IF payments[p].status # "pending" THEN Respond(q, 400, "Only pending payments can be cancelled")
       ELSE [q EXCEPT !.pc = "tx", !.bid = payments[p].booking]]
  /\ UNCHANGED <<bookings, payments, now, txClock, codeRetries>>

CancelPaymentTx_m(r) ==
  LET q == reqs[r] IN
  /\ q.op = "cancelPayment" /\ q.pc = "tx"
  /\ payments' = [payments EXCEPT ![q.pid].status = "failed"]
  /\ bookings' = [bookings EXCEPT ![q.bid].payment_id = 0,
                                  ![q.bid].status = "cancelled"]
  /\ reqs' = [reqs EXCEPT ![r] = Respond(q, 200, "Payment cancelled successfully")]
  /\ UNCHANGED <<now, opCount, txClock, codeRetries>>
CancelPaymentTx(r) ==
  LET q == reqs[r] IN
  /\ q.op = "cancelPayment" /\ q.pc = "tx"
  /\ payments' = [payments EXCEPT ![q.pid].status = "failed"]
  /\ bookings' = [bookings EXCEPT ![q.bid].payment_id = 0]
  /\ reqs' = [reqs EXCEPT ![r] = Respond(q, 200, "Payment cancelled successfully")]
  /\ UNCHANGED <<now, opCount, txClock, codeRetries>>

----------------------------------------------------------------------------

RequestedStatus == BookingStatus \cup {NULL}
Reasons == {NULL, "", "changed plans"}
ReasonsFor(st) == IF st = "cancelled" THEN Reasons ELSE {NULL}

Next ==
  \/ Tick
  \/ \E r \in Req, u \in Users, f \in SeedFacilities, d \in Dates,
        iv \in Intervals : CreateBooking(r, u, f, d, iv)
  \/ \E r \in Req : CreateConflict(r)
  \/ \E r \in Req : CreateLimit(r)
  \/ \E r \in Req, c \in Codes : CreateCode(r, c)
  \/ \E r \in Req : CreateInsert(r)
  \/ \E r \in Req : CreateFetch(r)
  \/ \E r \in Req, a \in Actors, b \in BookingIds, st \in RequestedStatus :
        \E reason \in ReasonsFor(st) : UpdateBooking(r, a, b, st, reason)
  \/ \E r \in Req : UpdateBookingTx(r)
  \/ \E r \in Req, u \in Users, b \in BookingIds : InitiatePayment(r, u, b)
  \/ \E r \in Req : InitiateCheck(r)
  \/ \E r \in Req : InitiateTx(r)
  \/ \E r \in Req, u \in Users, p \in PaymentIds, m \in BOOLEAN :
        VerifyPayment(r, u, p, m)
  \/ \E r \in Req : VerifyTx(r)
  \/ \E r \in Req, u \in Users, p \in PaymentIds : CancelPayment(r, u, p)
  \/ \E r \in Req : CancelPaymentTx(r)

Spec == Init /\ [][Next]_vars

TypeOK ==
  /\ \A i \in DOMAIN bookings : bookings[i].status \in BookingStatus \cup {NULL}
  /\ \A p \in DOMAIN payments : payments[p].status \in PaymentStatus

----------------------------------------------------------------------------
(* The refund workload: one user books one slot, pays and cancels.         *)

InitRefund ==
  /\ bookings = << >>
  /\ payments = << >>
  /\ reqs = [r \in Req |-> idleReq]
  /\ now = Clock[1]
  /\ opCount = MaxOpsRefund
  /\ txClock = 0
  /\ codeRetries = 0

NextRefund ==
  \/ \E r \in Req : CreateBooking(r, "u1", 1, 1, <<1080, 1140>>)
  \/ \E r \in Req : CreateConflict(r)
  \/ \E r \in Req : CreateLimit(r)
  \/ \E r \in Req : CreateCode(r, [i \in 1..codeLength |-> "A"])
  \/ \E r \in Req : CreateInsert(r)
  \/ \E r \in Req : CreateFetch(r)
  \/ \E r \in Req, b \in BookingIds : InitiatePayment(r, "u1", b)
  \/ \E r \in Req : InitiateCheck(r)
  \/ \E r \in Req : InitiateTx(r)
  \/ \E r \in Req, p \in PaymentIds : VerifyPayment(r, "u1", p, TRUE)
  \/ \E r \in Req : VerifyTx(r)
  \/ \E r \in Req, b \in BookingIds :
        UpdateBooking(r, "u1", b, "cancelled", "changed plans")
  \/ \E r \in Req : UpdateBookingTx(r)

SpecRefund == InitRefund /\ [][NextRefund]_vars

----------------------------------------------------------------------------
(* The validation workload: createBooking requests over bookable and       *)
(* unbookable facilities, past, valid and too distant dates, and intervals *)
(* that are valid, too short, too long or before opening.  The clock       *)
(* stands at day 2, 10:00; day 8 is a monday.                              *)

CreateFacilities == {1, 2, 3}
CreateDates == {1, 8, 33}
CreateIntervals == {<<1080, 1140>>, <<1080, 1095>>, <<300, 360>>, <<600, 900>>}

InitCreate ==
  /\ bookings = << >>
  /\ payments = << >>
  /\ reqs = [r \in Req |-> idleReq]
  /\ now = 2 * MinutesPerDay + 600
  /\ opCount = MaxOpsCreate
  /\ txClock = 0
  /\ codeRetries = 0

NextCreate ==
  \/ \E r \in Req, f \in CreateFacilities, d \in CreateDates,
        iv \in CreateIntervals : CreateBooking(r, "u1", f, d, iv)
  \/ \E r \in Req : CreateConflict(r)
  \/ \E r \in Req : CreateLimit(r)
  \/ \E r \in Req, c \in Codes : CreateCode(r, c)
  \/ \E r \in Req : CreateInsert(r)
  \/ \E r \in Req : CreateFetch(r)

SpecCreate == InitCreate /\ [][NextCreate]_vars

----------------------------------------------------------------------------
(* The booking-limit workload: one user books four disjoint hours of the   *)
(* same day at the seeded facility; the code drawn for a request is fixed  *)
(* by the hour it asks for.                                                *)

LimitIntervals == {<<600, 660>>, <<660, 720>>, <<720, 780>>, <<780, 840>>}

LimitCode(start) ==
  [i \in 1..codeLength |->
     IF start = 600 THEN "A" ELSE IF start = 660 THEN "B"
     ELSE IF start = 720 THEN "C" ELSE "D"]

InitLimit ==
  /\ bookings = << >>
  /\ payments = << >>
  /\ reqs = [r \in Req |-> idleReq]
  /\ now = Clock[1]
  /\ opCount = MaxOpsLimit
  /\ txClock = 0
  /\ codeRetries = 0

NextLimit ==
  \/ \E r \in Req, iv \in LimitIntervals : CreateBooking(r, "u1", 1, 1, iv)
  \/ \E r \in Req : CreateConflict(r)
  \/ \E r \in Req : CreateLimit(r)
  \/ \E r \in Req : CreateCode(r, LimitCode(reqs[r].start))
  \/ \E r \in Req : CreateInsert(r)
  \/ \E r \in Req : CreateFetch(r)

SpecLimit == InitLimit /\ [][NextLimit]_vars

----------------------------------------------------------------------------
(* The code-collision workload: two bookings of disjoint hours while the   *)
(* random generator keeps drawing the same code; MaxRetries bounds the     *)
(* collisions the model follows.                                           *)

CodeIntervals == {<<600, 660>>, <<1080, 1140>>}

InitCode ==
  /\ bookings = << >>
  /\ payments = << >>
  /\ reqs = [r \in Req |-> idleReq]
  /\ now = Clock[1]
  /\ opCount = MaxOpsCode
  /\ txClock = 0
  /\ codeRetries = MaxRetries

NextCode ==
  \/ \E r \in Req, iv \in CodeIntervals : CreateBooking(r, "u1", 1, 1, iv)
  \/ \E r \in Req : CreateConflict(r)
  \/ \E r \in Req : CreateLimit(r)
  \/ \E r \in Req : CreateCode(r, [i \in 1..codeLength |-> "A"])
  \/ \E r \in Req : CreateInsert(r)
  \/ \E r \in Req : CreateFetch(r)

SpecCode == InitCode /\ [][NextCode]_vars

----------------------------------------------------------------------------
(* Properties *)

overlaps(aStart, aEnd, bStart, bEnd) == aStart < bEnd /\ bStart < aEnd

Failed(q) == q.pc = "done" /\ q.res >= 400

StoreUnchanged == bookings' = bookings /\ payments' = payments

Starts(r, op) == opCount' # opCount /\ reqs'[r].op = op /\ reqs'[r] # reqs[r]

(* C1: no two distinct bookings in status pending or confirmed for the     *)
(* same facility and date have overlapping [startTime, endTime) intervals. *)
C1_NoOverlappingActive ==
  \A i, j \in DOMAIN bookings :
    (/\ i # j
     /\ bookings[i].status \in ActiveStatus
     /\ bookings[j].status \in ActiveStatus
     /\ bookings[i].facility = bookings[j].facility
     /\ bookings[i].date = bookings[j].date)
    => ~overlaps(bookings[i].start, bookings[i].end,
                 bookings[j].start, bookings[j].end)

(* C2: of two concurrent createBooking requests for overlapping intervals  *)
(* never both commit: a request that reaches its insert while an active    *)
(* overlapping booking is already committed inserts nothing.               *)
C2_ConflictRevalidatedAtCommit ==
  [][\A r \in Req :
       (/\ reqs[r].op = "create" /\ reqs[r].pc = "insert"
        /\ conflictQuery(bookings, reqs[r].fac, reqs[r].date,
                          reqs[r].start, reqs[r].end) # {}
        /\ CreateInsert(r))
       => bookings' = bookings]_vars

LegalEdges ==
  {<<"pending", "confirmed">>, <<"pending", "cancelled">>,
   <<"confirmed", "cancelled">>, <<"confirmed", "completed">>}

(* C3: every change of a booking's status is one of the edges              *)
(* pending->confirmed, pending->cancelled, confirmed->cancelled,           *)
(* confirmed->completed.                                                   *)
C3_OnlyLegalTransitions ==
  [][\A i \in DOMAIN bookings :
       (/\ bookings'[i].status # bookings[i].status
        /\ bookings[i].status \in BookingStatus
        /\ bookings'[i].status \in BookingStatus)
       => <<bookings[i].status, bookings'[i].status>> \in LegalEdges]_vars

(* C4: cancelled and completed are terminal: once a booking is cancelled   *)
(* or completed no operation changes its status again.                     *)
C4_TerminalStatesStay ==
  [][\A i \in DOMAIN bookings :
       (/\ bookings[i].status \in {"cancelled", "completed"}
        /\ bookings'[i].status \in BookingStatus)
       => bookings'[i].status = bookings[i].status]_vars

(* C5: whenever a booking becomes confirmed it was pending immediately     *)
(* before and a payment of that booking is completed after the same step.  *)
C5_ConfirmedOnlyByPayment ==
  [][\A i \in DOMAIN bookings :
       (bookings'[i].status = "confirmed" /\ bookings[i].status # "confirmed")
       => (/\ bookings[i].status = "pending"
           /\ completedPayments(payments', i) # {})]_vars

(* C6: each booking's status is always one of pending, confirmed,          *)
(* cancelled, completed; an update that omits status never empties it.     *)
C6_StatusInDomain ==
  \A i \in DOMAIN bookings : bookings[i].status \in BookingStatus

(* C7: a cancel request on a booking that is already cancelled or          *)
(* completed fails for every actor, admin included, and changes neither    *)
(* the booking nor any payment.                                            *)
C7_CancelOfFinalRejected ==
  [][\A r \in Req :
       Starts(r, "put") =>
       \A a \in Actors, b \in DOMAIN bookings, reason \in Reasons :
         (/\ bookings[b].status \in {"cancelled", "completed"}
          /\ UpdateBooking(r, a, b, "cancelled", reason))
         => (Failed(reqs'[r]) /\ StoreUnchanged)]_vars

C7_Witness ==
  \E r \in Req :
    /\ reqs[r].op = "put" /\ reqs[r].actor = Admin /\ reqs[r].res = 400
    /\ reqs[r].msg = "Cannot cancel a completed or already cancelled booking"
    /\ Len(bookings) = 1 /\ bookings[1].status = "completed"

LateNotice(b) ==
  minutesUntilBooking(bookings[b], now) < cancellationPolicyHours * 60

CancelCommits(r) ==
  (/\ reqs[r].op = "put" /\ reqs[r].pc = "tx" /\ reqs[r].status = "cancelled"
   /\ UpdateBookingTx(r))
  => (/\ bookings'[reqs[r].bid].status = "cancelled"
      /\ reqs'[r].pc = "done" /\ reqs'[r].res = 200)

C9_ReasonRequired ==
  [][\A r \in Req :
       /\ CancelCommits(r)
       /\ Starts(r, "put") =>
          \A a \in Actors, b \in DOMAIN bookings, reason \in {NULL, ""} :
            (/\ bookings[b].status \in ActiveStatus
             /\ UpdateBooking(r, a, b, "cancelled", reason))
            => IF a = Admin
               THEN reqs'[r].pc = "tx" /\ reqs'[r].bid = b
                    /\ reqs'[r].status = "cancelled"
               ELSE Failed(reqs'[r]) /\ StoreUnchanged]_vars

C9_Witness ==
  \E r, t \in Req :
    /\ reqs[r].op = "put" /\ reqs[r].actor = "u1" /\ reqs[r].res = 400
    /\ reqs[r].msg = "Cancellation reason is required"
    /\ reqs[t].op = "put" /\ reqs[t].actor = Admin /\ reqs[t].res = 200
    /\ reqs[t].status = "cancelled"
    /\ Len(bookings) = 1 /\ bookings[1].status = "cancelled"
    /\ falsy(bookings[1].reason)

(* C10: after a successful cancel no payment of the cancelled booking is   *)
(* still completed, every payment the cancel touched is refunded in full,  *)
(* and a cancel of a booking with no completed payment changes no payment. *)
C10_CancelRefundsCompletedPayment ==
  [][\A r \in Req :
       (/\ reqs[r].op = "put" /\ reqs[r].pc = "tx"
        /\ reqs[r].status = "cancelled"
        /\ UpdateBookingTx(r))
       => (/\ completedPayments(payments', reqs[r].bid) = {}
           /\ \A p \in completedPayments(payments, reqs[r].bid) :
                /\ payments'[p].status = "refunded"
                /\ payments'[p].refund_amount = payments[p].amount
           /\ completedPayments(payments, reqs[r].bid) = {}
                => payments' = payments)]_vars

(* C11: status changes and their side effects are atomic under every       *)
(* interleaving of cancel, verification and payment cancellation: no       *)
(* booking is cancelled while one of its payments is still completed, and  *)
(* no payment is completed while its booking is still pending.             *)
C11_StatusAndPaymentAgree ==
  \A p \in DOMAIN payments :
    payments[p].status = "completed"
      => bookings[payments[p].booking].status \notin {"cancelled", "pending"}

FacilityNotBookable(f) ==
  f \notin DOMAIN facilities
  \/ ~facilities[f].is_active \/ ~facilities[f].is_verified

(* C12: createBooking reports the first violated check in the order        *)
(* facility not bookable, invalid duration, past date, advance window,     *)
(* operating hours, user booking limit, slot conflict.                     *)
C12_FirstViolatedCheckWins ==
  [][\A r \in Req :
       /\ \A u \in Users, f \in DOMAIN facilities, d \in CreateDates,
             iv \in CreateIntervals :
            CreateBooking(r, u, f, d, iv) =>
              reqs'[r].msg =
                IF FacilityNotBookable(f)
                THEN "Facility is not available for booking"
                ELSE IF ~isValidBookingTime(iv[1], iv[2])
                THEN "Invalid booking time. Minimum duration is 30 minutes."
                ELSE IF d < today THEN "Cannot book for past dates"
                ELSE IF d > today + maxAdvanceDays
                THEN "Cannot book more than 30 days in advance"
                ELSE IF outsideHours(f, d, iv[1], iv[2])
                THEN "Booking time is outside facility operating hours"
                ELSE NULL
       /\ (CreateConflict(r) /\ reqs'[r].res = 409)
            => userActiveBookings(bookings, reqs[r].actor, today)
                 < userBookingLimit]_vars

(* C13 as stated: createBooking for a date strictly before today always    *)
(* fails with the past-date error, whatever the other fields are, and      *)
(* persists no booking.                                                    *)
C13_PastDateAlwaysPastDateError ==
  [][\A r \in Req, u \in Users, f \in DOMAIN facilities, d \in CreateDates,
        iv \in CreateIntervals :
       (d < today /\ CreateBooking(r, u, f, d, iv))
       => (/\ Failed(reqs'[r])
           /\ reqs'[r].msg = "Cannot book for past dates"
           /\ StoreUnchanged)]_vars

(* C13 amended: createBooking for a date strictly before today always      *)
(* fails and persists no booking, whatever the facility and the times      *)
(* are; the error is the past-date error whenever the interval passes the  *)
(* duration check, which runs first, and the invalid-duration error        *)
(* otherwise.                                                              *)
C13_PastDateRejected ==
  [][\A r \in Req, u \in Users, f \in DOMAIN facilities, d \in CreateDates,
        iv \in CreateIntervals :
       (d < today /\ CreateBooking(r, u, f, d, iv))
       => (/\ Failed(reqs'[r])
           /\ reqs'[r].msg =
                IF isValidBookingTime(iv[1], iv[2])
                THEN "Cannot book for past dates"
                ELSE "Invalid booking time. Minimum duration is 30 minutes."
           /\ StoreUnchanged)]_vars

C13_Witness ==
  \E r, t \in Req :
    /\ reqs[r].op = "create" /\ reqs[r].res = 400
    /\ reqs[r].msg = "Cannot book for past dates"
    /\ reqs[t].op = "create" /\ reqs[t].res = 400
    /\ reqs[t].msg = "Invalid booking time. Minimum duration is 30 minutes."
    /\ bookings = << >>

Inserts(r) == CreateInsert(r) /\ Len(bookings') = Len(bookings) + 1

(* C14: a createBooking request whose date lies beyond today +             *)
(* maxAdvanceDays (or before today) fails and persists nothing, and every  *)
(* booking createBooking persists is the request's date d with             *)
(* today <= d <= today + maxAdvanceDays.                                   *)
C14_AdvanceWindow ==
  [][\A r \in Req :
       /\ \A u \in Users, f \in DOMAIN facilities, d \in CreateDates,
             iv \in CreateIntervals :
            (CreateBooking(r, u, f, d, iv)
               /\ (d < today \/ d > today + maxAdvanceDays))
            => (Failed(reqs'[r]) /\ StoreUnchanged)
       /\ Inserts(r) =>
            LET b == bookings'[Len(bookings')] IN
            /\ b.date = reqs[r].date
            /\ today <= b.date /\ b.date <= today + maxAdvanceDays]_vars

C14_Witness ==
  \E r \in Req :
    /\ reqs[r].op = "create" /\ reqs[r].res = 400
    /\ reqs[r].msg = "Cannot book more than 30 days in advance"
    /\ Len(bookings) = 1
    /\ today <= bookings[1].date /\ bookings[1].date <= today + maxAdvanceDays

(* C15: every booking createBooking persists lies inside the facility's    *)
(* operating hours for the weekday of its date (open <= startTime and      *)
(* endTime <= close), and no booking is persisted for a weekday on which   *)
(* the facility has no configured hours.                                   *)
C15_InsideOperatingHours ==
  \A i \in DOMAIN bookings :
    LET b == bookings[i] IN
    /\ hasSchedule(b.facility, b.date)
    /\ daySchedule(b.facility, b.date).open <= b.start
    /\ b.end <= daySchedule(b.facility, b.date).close

(* C16: every booking createBooking persists has endTime > startTime and   *)
(* a duration between minDuration and max_booking_duration minutes.        *)
C16_DurationWithinLimits ==
  \A i \in DOMAIN bookings :
    LET b == bookings[i] IN
    /\ b.end > b.start
    /\ minDuration <= b.end - b.start
    /\ b.end - b.start <= max_booking_duration

(* C17: no user ever holds more than userBookingLimit bookings with status *)
(* pending or confirmed and date >= today, also when several createBooking *)
(* requests of that user run concurrently.                                 *)
C17_UserLimitHolds ==
  \A u \in Users : userActiveBookings(bookings, u, today) <= userBookingLimit

C19_CodeAttemptsBounded ==
  \A r \in Req : reqs[r].attempts <= 20

(* C20: a successful createBooking returns the record of exactly the       *)
(* booking this call inserted, with status pending, also when the same     *)
(* user has another createBooking in flight.                               *)
C20_ReturnsOwnBooking ==
  \A r \in Req :
    (reqs[r].op = "create" /\ reqs[r].pc = "done" /\ reqs[r].res = 201)
    => reqs[r].ret = reqs[r].bid

----------------------------------------------------------------------------
(* Notification writes.  Each handler inserts its notification row with    *)
(* client.query inside the transaction callback, after the write it        *)
(* announces; when that insert throws, the callback rejects, the           *)
(* transaction is rolled back and the handler's catch answers 500.         *)

CreateNotifyFail(r) ==
  LET q == reqs[r] IN
  /\ q.op = "create" /\ q.pc = "insert"
  /\ ~uniqueViolation(bookings, q.code)
  /\ reqs' = [reqs EXCEPT ![r] = Respond(q, 500, "Failed to create booking")]
  /\ UNCHANGED <<bookings, payments, now, opCount, txClock, codeRetries>>

UpdateBookingNotifyFail(r) ==
  LET q == reqs[r] IN
  /\ q.op = "put" /\ q.pc = "tx"
  /\ q.status \in {"cancelled", "confirmed"}
  /\ reqs' = [reqs EXCEPT ![r] = Respond(q, 500, "Failed to update booking")]
  /\ UNCHANGED <<bookings, payments, now, opCount, txClock, codeRetries>>

VerifyNotifyFail(r) ==
  LET q == reqs[r] IN
  /\ q.op = "verify" /\ q.pc = "tx"
  /\ reqs' = [reqs EXCEPT ![r] = Respond(q, 500, "Failed to verify payment")]
  /\ UNCHANGED <<bookings, payments, now, opCount, txClock, codeRetries>>

NotifyFails(r) ==
  CreateNotifyFail(r) \/ UpdateBookingNotifyFail(r) \/ VerifyNotifyFail(r)

(* The notification workload: the refund workload (book, pay, cancel) on   *)
(* a database whose notification inserts may fail.                         *)

InitNotify ==
  /\ bookings = << >>
  /\ payments = << >>
  /\ reqs = [r \in Req |-> idleReq]
  /\ now = Clock[1]
  /\ opCount = MaxOpsNotify
  /\ txClock = 0
  /\ codeRetries = 0

NextNotify ==
  \/ \E r \in Req : CreateBooking(r, "u1", 1, 1, <<1080, 1140>>)
  \/ \E r \in Req : CreateConflict(r)
  \/ \E r \in Req : CreateLimit(r)
  \/ \E r \in Req : CreateCode(r, [i \in 1..codeLength |-> "A"])
  \/ \E r \in Req : CreateInsert(r)
  \/ \E r \in Req : CreateFetch(r)
  \/ \E r \in Req, b \in BookingIds : InitiatePayment(r, "u1", b)
  \/ \E r \in Req : InitiateCheck(r)
  \/ \E r \in Req : InitiateTx(r)
  \/ \E r \in Req, p \in PaymentIds : VerifyPayment(r, "u1", p, TRUE)
  \/ \E r \in Req : VerifyTx(r)
  \/ \E r \in Req, b \in BookingIds :
        UpdateBooking(r, "u1", b, "cancelled", "changed plans")
  \/ \E r \in Req : UpdateBookingTx(r)
  \/ \E r \in Req : CreateNotifyFail(r)
  \/ \E r \in Req : UpdateBookingNotifyFail(r)
  \/ \E r \in Req : VerifyNotifyFail(r)

SpecNotify == InitNotify /\ [][NextNotify]_vars

(* C21: a failure to write the notification row never fails the operation  *)
(* it belongs to: when the notification insert of createBooking, of a      *)
(* booking cancellation or confirmation, or of a payment verification      *)
(* fails, the operation still answers with success (200 or 201).           *)
C21_NotificationFailureHarmless ==
  [][\A r \in Req : NotifyFails(r) => reqs'[r].res \in {200, 201}]_vars

----------------------------------------------------------------------------
(* GET /api/facilities/:id/slots *)

(* Times of day are compared as text by the route.  A text is the pair of  *)
(* its minute of the day and 1 when seconds follow: the route's own times  *)
(* and the stored hours read 'HH:MM', the TIME columns of a bookings row   *)
(* read 'HH:MM:SS', and 'HH:MM' sorts before 'HH:MM:00'.                   *)
hhmm(t) == <<t, 0>>
hhmmss(t) == <<t, 1>>
strLess(a, b) == a[1] < b[1] \/ (a[1] = b[1] /\ a[2] < b[2])

defaultHours == [w \in 0..6 |-> [open |-> 360, close |-> 1320]]

slotHours(f) ==
  IF facilities[f].hours_stored THEN facilities[f].operating_hours
  ELSE defaultHours

slotsClosed(f, d) == dayOfWeek(d) \notin DOMAIN slotHours(f)

bookedSlots(rows, f, d) ==
  {<<rows[i].start, rows[i].end>> : i \in
     {j \in DOMAIN rows : /\ rows[j].facility = f
                          /\ rows[j].date = d
                          /\ rows[j].status \in {"pending", "confirmed"}}}

nextTimeString(currentTime) == (currentTime + slotMinutes) % MinutesPerDay

isBooked(currentTime, nextTime, booked) ==
  \E b \in booked :
    /\ strLess(hhmm(currentTime), hhmmss(b[2]))
    /\ strLess(hhmmss(b[1]), hhmm(nextTime))

(* The while condition and the break of one iteration. *)
loopEnds(currentTime, closeTime) ==
  \/ ~strLess(hhmm(currentTime), hhmm(closeTime))
  \/ strLess(hhmm(closeTime), hhmm(nextTimeString(currentTime)))

slotOf(currentTime, booked) ==
  [startTime |-> currentTime, endTime |-> nextTimeString(currentTime),
   isAvailable |-> ~isBooked(currentTime, nextTimeString(currentTime), booked)]

GetSlots(r, f, d) ==
  LET q == [idleReq EXCEPT !.op = "slots", !.fac = f, !.date = d] IN
  /\ Free(r)
  /\ opCount' = opCount - 1
  /\ reqs' = [reqs EXCEPT ![r] =
       IF f \notin DOMAIN facilities \/ ~facilities[f].is_active
       THEN Respond(q, 404, "Facility not found")
       ELSE IF slotsClosed(f, d)
       THEN [Respond(q, 200, "Facility is closed on this day")
               EXCEPT !.fac = f, !.date = d]
       ELSE [q EXCEPT !.pc = "loop",
                      !.cur = slotHours(f)[dayOfWeek(d)].open,
                      !.close = slotHours(f)[dayOfWeek(d)].close,
                      !.booked = bookedSlots(bookings, f, d)]]
  /\ UNCHANGED <<bookings, payments, now, txClock, codeRetries>>

SlotStep(r) ==
  LET q == reqs[r] IN
  /\ q.op = "slots" /\ q.pc = "loop"
  /\ IF loopEnds(q.cur, q.close)
     THEN reqs' = [reqs EXCEPT ![r] =
            [Respond(q, 200, "Time slots retrieved successfully")
               EXCEPT !.fac = q.fac, !.date = q.date, !.slots = q.slots]]
     ELSE /\ Len(q.slots) < MaxSlots
          /\ reqs' = [reqs EXCEPT ![r] =
               [q EXCEPT !.slots = Append(@, slotOf(q.cur, q.booked)),
                         !.cur = nextTimeString(q.cur)]]
  /\ UNCHANGED <<bookings, payments, now, opCount, txClock, codeRetries>>

(* The slots workload: the bookings table holds nothing or one booking of  *)
(* facility 1 on day 1 (a monday), 18:00-19:00, in any status; slots are   *)
(* asked for the facilities and an unknown one on monday to wednesday.     *)

SlotFacilities == {1, 3, 4, 5, 6}
SlotDates == {1, 2, 3}

slotBooking(st) ==
  [user |-> "u1", facility |-> 1, date |-> 1, start |-> 1080, end |-> 1140,
   status |-> st, payment_id |-> 0, reason |-> NULL,
   code |-> [i \in 1..codeLength |-> "A"],
   amount |-> toDecimal2(totalAmount(1, 1080, 1140)),
   commission_amount |->
     calculateCommission(totalAmount(1, 1080, 1140), commissionRate(1)),
   created_at |-> 1]

InitSlots ==
  /\ bookings \in {<< >>} \cup {<<slotBooking(st)>> : st \in BookingStatus}
  /\ payments = << >>
  /\ reqs = [r \in Req |-> idleReq]
  /\ now = Clock[1]
  /\ opCount = MaxOpsSlots
  /\ txClock = Len(bookings)
  /\ codeRetries = 0

NextSlots ==
  \/ \E r \in Req, f \in SlotFacilities, d \in SlotDates : GetSlots(r, f, d)
  \/ \E r \in Req : SlotStep(r)

SpecSlots == InitSlots /\ [][NextSlots]_vars

SlotWindow(q) == slotHours(q.fac)[dayOfWeek(q.date)]

SlotsAnswered(q) ==
  q.op = "slots" /\ q.pc = "done" /\ q.res = 200 /\ ~slotsClosed(q.fac, q.date)

(* C22: for a facility and date whose weekday has hours {open, close} with *)
(* open < close, the slots getSlots returns are consecutive 30-minute      *)
(* intervals that start at open, leave no gap and no overlap, cover        *)
(* [open, close) exactly, and none ends after close or wraps past          *)
(* midnight.                                                               *)
C22_SlotsTileWindow ==
  \A r \in Req :
    LET q == reqs[r]
        sl == q.slots
    IN
    /\ (q.op = "slots" /\ q.pc = "loop") =>
         \A i \in 1..Len(sl) :
           /\ sl[i].endTime = sl[i].startTime + slotMinutes
           /\ sl[i].endTime <= q.close
           /\ i > 1 => sl[i].startTime = sl[i - 1].endTime
    /\ SlotsAnswered(q) =>
         /\ Len(sl) > 0
         /\ sl[1].startTime = SlotWindow(q).open
         /\ sl[Len(sl)].endTime = SlotWindow(q).close
         /\ \A i \in 1..Len(sl) :
              /\ sl[i].endTime = sl[i].startTime + slotMinutes
              /\ i > 1 => sl[i].startTime = sl[i - 1].endTime

(* C23: slot generation terminates for every window open < close on the    *)
(* grid 00:00..23:59, also when close is later than 23:30 or the window is *)
(* not a multiple of 30 minutes.  The loop's next iteration depends on     *)
(* currentTime alone, so it terminates exactly when it never comes back to *)
(* a start time it has already emitted.                                    *)
C23_SlotLoopTerminates ==
  \A r \in Req :
    \A i, j \in 1..Len(reqs[r].slots) :
      i < j => reqs[r].slots[i].startTime # reqs[r].slots[j].startTime

(* C24: a slot is marked available exactly when its half-open interval     *)
(* overlaps no pending or confirmed booking of that facility and date;     *)
(* cancelled and completed bookings never block a slot, and a slot that    *)
(* only touches an active booking (starts when it ends, or ends when it    *)
(* starts) is available.                                                   *)
C24_AvailableIffNoActiveOverlap ==
  \A r \in Req :
    LET q == reqs[r] IN
    (q.op = "slots" /\ q.pc \in {"loop", "done"}) =>
      \A i \in 1..Len(q.slots) :
        q.slots[i].isAvailable <=>
          ~\E b \in DOMAIN bookings :
             /\ bookings[b].facility = q.fac
             /\ bookings[b].date = q.date
             /\ bookings[b].status \in ActiveStatus
             /\ overlaps(q.slots[i].startTime, q.slots[i].endTime,
                         bookings[b].start, bookings[b].end)

----------------------------------------------------------------------------
(* The overlap workload: the table holds one booking of facility 1 on day  *)
(* 1, in any status and over any interval of a half-hour grid, and one     *)
(* createBooking request for facility 1 stands before its conflict query   *)
(* with any interval of the grid, for the same or the next day.            *)

OverlapGrid == {600, 630, 660, 690, 720}
OverlapIntervals == {iv \in OverlapGrid \X OverlapGrid : iv[1] < iv[2]}
OverlapDates == {1, 2}

overlapBooking(st, iv) ==
  [user |-> "u1", facility |-> 1, date |-> 1, start |-> iv[1], end |-> iv[2],
   status |-> st, payment_id |-> 0, reason |-> NULL,
   code |-> [i \in 1..codeLength |-> "A"],
   amount |-> toDecimal2(totalAmount(1, iv[1], iv[2])),
   commission_amount |->
     calculateCommission(totalAmount(1, iv[1], iv[2]), commissionRate(1)),
   created_at |-> 1]

overlapRequest(d, iv) ==
  [idleReq EXCEPT !.op = "create", !.pc = "conflict", !.actor = "u1",
                  !.fac = 1, !.date = d, !.start = iv[1], !.end = iv[2],
                  !.began = 2]

InitOverlap ==
  /\ \E st \in BookingStatus, iv \in OverlapIntervals :
       bookings = <<overlapBooking(st, iv)>>
  /\ payments = << >>
  /\ \E d \in OverlapDates, iv \in OverlapIntervals :
       reqs = [r \in Req |-> IF r = 1 THEN overlapRequest(d, iv) ELSE idleReq]
  /\ now = Clock[1]
  /\ opCount = 0
  /\ txClock = 2
  /\ codeRetries = 0

NextOverlap == \E r \in Req : CreateConflict(r)

SpecOverlap == InitOverlap /\ [][NextOverlap]_vars

ActiveOverlap(q) ==
  \E i \in DOMAIN bookings :
    /\ bookings[i].facility = q.fac
    /\ bookings[i].date = q.date
    /\ bookings[i].status \in {"pending", "confirmed"}
    /\ overlaps(q.start, q.end, bookings[i].start, bookings[i].end)

(* C25: the conflict test of createBooking is the half-open overlap        *)
(* predicate aStart < bEnd /\ bStart < aEnd: a request is answered 409     *)
(* exactly when its interval overlaps a pending or confirmed booking of    *)
(* the same facility and date; the test is symmetric in the two intervals, *)
(* intervals that only touch do not conflict, cancelled and completed      *)
(* bookings are not considered, and the isTimeSlotAvailable helper decides *)
(* the same.                                                               *)
C25_ConflictIsHalfOpenOverlap ==
  [][\A r \in Req : CreateConflict(r) =>
       LET q == reqs[r]
           hit == conflictQuery(bookings, q.fac, q.date, q.start, q.end) # {}
       IN
       /\ (reqs'[r].res = 409) <=> ActiveOverlap(q)
       /\ (reqs'[r].res # 409) <=> (reqs'[r].pc = "limit")
       /\ \A i \in DOMAIN bookings :
            (bookings[i].facility = q.fac /\ bookings[i].date = q.date) =>
              /\ (conflictQuery(<<bookings[i]>>, q.fac, q.date, q.start, q.end) # {})
                 <=> (conflictQuery(<<[bookings[i] EXCEPT !.start = q.start,
                                                         !.end = q.end]>>,
                                    q.fac, q.date, bookings[i].start,
                                    bookings[i].end) # {})
              /\ (q.end = bookings[i].start \/ q.start = bookings[i].end)
                 => conflictQuery(<<bookings[i]>>, q.fac, q.date, q.start, q.end) = {}
              /\ bookings[i].status \in ActiveStatus =>
                   (hit <=> ~isTimeSlotAvailable(q.start, q.end,
                              {[start_time |-> bookings[i].start,
                                end_time |-> bookings[i].end]}))
    ]_vars

C25_Witness ==
  \E r \in Req :
    /\ reqs[r].op = "create" /\ reqs[r].pc = "limit"
    /\ \E i \in DOMAIN bookings :
         /\ bookings[i].status \in ActiveStatus
         /\ bookings[i].facility = reqs[r].fac
         /\ bookings[i].date = reqs[r].date
         /\ reqs[r].start = bookings[i].end

----------------------------------------------------------------------------
(* The pricing workload: bookings of 60, 40 and 45 minutes at facilities   *)
(* with a round price, a price of 1500.07 an hour and no stored commission *)
(* rate.                                                                   *)

PriceFacilities == {1, 4, 5}
PriceIntervals == {<<1080, 1140>>, <<1080, 1120>>, <<600, 645>>}

InitPrice ==
  /\ bookings = << >>
  /\ payments = << >>
  /\ reqs = [r \in Req |-> idleReq]
  /\ now = Clock[1]
  /\ opCount = MaxOpsPrice
  /\ txClock = 0
  /\ codeRetries = 0

NextPrice ==
  \/ \E r \in Req, f \in PriceFacilities, iv \in PriceIntervals :
        CreateBooking(r, "u1", f, 1, iv)
  \/ \E r \in Req : CreateConflict(r)
  \/ \E r \in Req : CreateLimit(r)
  \/ \E r \in Req : CreateCode(r, LimitCode(reqs[r].start))
  \/ \E r \in Req : CreateInsert(r)
  \/ \E r \in Req : CreateFetch(r)

SpecPrice == InitPrice /\ [][NextPrice]_vars

(* C26: every persisted booking has totalAmount = pricePerHour *           *)
(* durationMinutes / 60 rounded half up to two decimals and                *)
(* commissionAmount = (that rounded totalAmount) * commissionRate rounded  *)
(* half up to two decimals, the rate being the facility's when stored and  *)
(* 0.10 otherwise; 1500 an hour at 10% for 18:00-19:00 gives 1500.00 and   *)
(* 150.00; and 0 <= commissionAmount <= totalAmount for a rate in (0, 1].  *)
C26_AmountAndCommission ==
  \A i \in DOMAIN bookings :
    LET b == bookings[i]
        price == facilities[b.facility].pricing_per_hour
        rate == IF facilities[b.facility].commission_rate = NoRate THEN 1000
                ELSE facilities[b.facility].commission_rate
    IN
    /\ b.amount = roundHalfUp(price * (b.end - b.start), 60)
    /\ b.commission_amount = roundHalfUp(b.amount * rate, 10000)
    /\ (price = 150000 /\ rate = 1000 /\ b.start = 1080 /\ b.end = 1140)
         => (b.amount = 150000 /\ b.commission_amount = 15000)
    /\ (rate > 0 /\ rate <= 10000)
         => (0 <= b.commission_amount /\ b.commission_amount <= b.amount)

----------------------------------------------------------------------------
(* POST /api/payments/:id/refund *)

RefundPayment(r, a, p, refundAmount) ==
  LET q == [idleReq EXCEPT !.op = "refund", !.actor = a, !.pid = p]
      refundAmountToProcess ==
        IF refundAmount = 0 THEN payments[p].amount ELSE refundAmount
  IN
  /\ Free(r)
  /\ opCount' = opCount - 1
  /\ reqs' = [reqs EXCEPT ![r] =
       IF Role(a) # "admin"
       THEN Respond(q, 403, "Only administrators can process refunds")
       ELSE IF p \notin DOMAIN payments THEN Respond(q, 404, "Payment not found")
       ELSE IF payments[p].status # "completed"
            THEN Respond(q, 400, "Only completed payments can be refunded")
       ELSE IF refundAmountToProcess > payments[p].amount
            THEN Respond(q, 400, "Refund amount cannot exceed payment amount")
       ELSE [q EXCEPT !.pc = "tx", !.amount = refundAmountToProcess]]
  /\ UNCHANGED <<bookings, payments, now, txClock, codeRetries>>

RefundPaymentTx(r) ==
  LET q == reqs[r] IN
  /\ q.op = "refund" /\ q.pc = "tx"
  /\ payments' = [payments EXCEPT ![q.pid] =
       [@ EXCEPT !.status = "refunded", !.refund_amount = q.amount]]
  /\ reqs' = [reqs EXCEPT ![r] = Respond(q, 200, "Refund processed successfully")]
  /\ UNCHANGED <<bookings, now, opCount, txClock, codeRetries>>

(* The payment workload: user u1 holds one pending booking (facility 1,    *)
(* day 1, 18:00-19:00) and pays for it, cancels the payment or the         *)
(* booking, while an administrator refunds.                                *)

RefundAmounts == {0, 200000}

InitPay ==
  /\ bookings = <<slotBooking("pending")>>
  /\ payments = << >>
  /\ reqs = [r \in Req |-> idleReq]
  /\ now = Clock[1]
  /\ opCount = MaxOpsPay
  /\ txClock = 1
  /\ codeRetries = 0

NextPay ==
  \/ \E r \in Req, b \in BookingIds : InitiatePayment(r, "u1", b)
  \/ \E r \in Req : InitiateCheck(r)
  \/ \E r \in Req : InitiateTx(r)
  \/ \E r \in Req, p \in PaymentIds : VerifyPayment(r, "u1", p, TRUE)
  \/ \E r \in Req : VerifyTx(r)
  \/ \E r \in Req, p \in PaymentIds : CancelPayment(r, "u1", p)
  \/ \E r \in Req : CancelPaymentTx(r)
  \/ \E r \in Req, a \in Actors, p \in PaymentIds, amt \in RefundAmounts :
        RefundPayment(r, a, p, amt)
  \/ \E r \in Req : RefundPaymentTx(r)
  \/ \E r \in Req, b \in BookingIds :
        UpdateBooking(r, "u1", b, "cancelled", "changed plans")
  \/ \E r \in Req : UpdateBookingTx(r)

SpecPay == InitPay /\ [][NextPay]_vars

AllFailed(rows, b) == \A p \in paymentsOf(rows, b) : rows[p].status = "failed"

PaymentEdges ==
  {<<"pending", "completed">>, <<"pending", "failed">>,
   <<"completed", "refunded">>}

(* C28: under any interleaving of verification, payment cancellation,      *)
(* administrator refund and booking cancellation, a payment's status       *)
(* changes only along pending -> completed, pending -> failed and          *)
(* completed -> refunded: failed and refunded are terminal, a completed    *)
(* payment never becomes failed, and a refunded payment is never refunded  *)
(* again.                                                                  *)
C28_PaymentStatusEdges ==
  [][/\ \A p \in DOMAIN payments :
          payments'[p].status # payments[p].status
            => <<payments[p].status, payments'[p].status>> \in PaymentEdges
     /\ \A r \in Req :
          RefundPaymentTx(r) => payments[reqs[r].pid].status # "refunded"
    ]_vars

(* C29: each booking has at most one payment that is pending or completed, *)
(* also after concurrent initiate requests, and a payment is only inserted *)
(* for a booking that is pending at the moment of the insert.              *)
C29_OneLivePaymentPerBooking ==
  [][/\ \A b \in DOMAIN bookings :
          Cardinality({p \in DOMAIN payments' :
                         /\ payments'[p].booking = b
                         /\ payments'[p].status \in {"pending", "completed"}}) <= 1
     /\ \A r \in Req :
          InitiateTx(r) => bookings[reqs[r].bid].status = "pending"
    ]_vars

----------------------------------------------------------------------------
(* The opening-hours workload: on day 8 (a monday) a user books at the     *)
(* seeded facility, at facility 3 (no monday hours) and at facility 4 (no  *)
(* hours stored), inside the usual hours, before them and off the          *)
(* half-hour grid, and the slots of the same facilities and day are asked  *)
(* for.                                                                    *)

HoursFacilities == {1, 3, 4}
HoursDates == {8}
HoursIntervals == {<<1080, 1140>>, <<300, 360>>, <<1090, 1130>>}

InitHours ==
  /\ bookings = << >>
  /\ payments = << >>
  /\ reqs = [r \in Req |-> idleReq]
  /\ now = Clock[1]
  /\ opCount = MaxOpsHours
  /\ txClock = 0
  /\ codeRetries = 0

NextHours ==
  \/ \E r \in Req, f \in HoursFacilities, d \in HoursDates,
        iv \in HoursIntervals : CreateBooking(r, "u1", f, d, iv)
  \/ \E r \in Req : CreateConflict(r)
  \/ \E r \in Req : CreateLimit(r)
  \/ \E r \in Req : CreateCode(r, [i \in 1..codeLength |-> "A"])
  \/ \E r \in Req : CreateInsert(r)
  \/ \E r \in Req : CreateFetch(r)
  \/ \E r \in Req, f \in HoursFacilities, d \in HoursDates : GetSlots(r, f, d)
  \/ \E r \in Req : SlotStep(r)

SpecHours == InitHours /\ [][NextHours]_vars

(* C30: getSlots and createBooking agree on the opening hours: every       *)
(* interval createBooking has accepted for a facility and date is a union  *)
(* of consecutive slots getSlots returns for that facility and date; in    *)
(* particular nothing is accepted where getSlots returns no slots (a       *)
(* closed weekday), and for a facility without stored operating_hours both *)
(* use the same window.                                                    *)
C30_SlotsAndBookingsAgree ==
  \A r \in Req, i \in DOMAIN bookings :
    LET q == reqs[r]
        b == bookings[i]
    IN
    (/\ q.op = "slots" /\ q.pc = "done" /\ q.res = 200
     /\ q.fac = b.facility /\ q.date = b.date)
    => \E m, n \in 1..Len(q.slots) :
         /\ m <= n
         /\ q.slots[m].startTime = b.start
         /\ q.slots[n].endTime = b.end
         /\ \A k \in m..(n - 1) : q.slots[k].endTime = q.slots[k + 1].startTime

====
